---- MODULE Spec2Model ----
(***************************************************************************)
(* Model of the o11y streaming core: the CircularBuffer (both variants of  *)
(* circularBuffer.go: the fixed-size one whose Write fails with ErrNoRoom  *)
(* and the growable one whose Write resizes), and the Filter goroutine of  *)
(* filter.go that scans tokens out of the buffer with a bufio.Scanner.     *)
(***************************************************************************)
EXTENDS Integers, Sequences, FiniteSets, TLC

VARIABLES
    policy,     \* which CircularBuffer variant is compiled in: "failfast" | "autogrow"
    c,          \* the CircularBuffer struct: buf, len, index, closed, C
    panicked,   \* the process died of a runtime panic (close of a closed channel)
    ret,        \* what the last buffer call returned
    wr,         \* history: every byte accepted by Write, in order
    rd,         \* history: every byte returned by Read, in order
    dropped,    \* history: number of bytes removed by a bare Consume call
    caller,     \* the client goroutine: where its Read is and what its Peek put into p
    splitter,   \* the SplitFunc given to NewFilter: "lines" | "json"
    terps,      \* Filter.Interpreters
    scanner,    \* the bufio.Scanner of the Filter's goroutine
    g,          \* the Filter's goroutine: where it is and its local variables
    sink,       \* history: the calls of the output function in order, and whether there were more
    ntok,       \* history: number of Scan calls that returned true
    window,     \* the data a split function is called on, outside any Scanner
    res         \* what the last call of the split function on window returned

bufvars == <<policy, c, panicked, ret, wr, rd, dropped, caller>>

filtervars == <<splitter, terps, scanner, g, sink, ntok>>

splitvars == <<window, res>>

vars == <<policy, c, panicked, ret, wr, rd, dropped, caller, splitter, terps, scanner, g, sink,
          ntok, window, res>>

----------------------------------------------------------------------------
(* Bounds of the model *)

MaxCap == 3         \* capacities given to NewCircularBuffer: 1..MaxCap
MaxChunk == 2       \* longest slice passed to one Write
MaxDst == 2         \* longest destination slice passed to Peek/Read, largest Consume argument
MaxTotal == 4       \* bytes accepted by Write over one run
FMaxChunk == 2      \* longest slice passed to one Filter.Write
FMaxTotal == 3      \* bytes accepted by Filter.Write over one run
MaxSink == 4        \* calls of the output function that the history records

DataBytes == {1, 2}

----------------------------------------------------------------------------
(* Go slices: sequences are 1-based, Go indices 0-based *)

Min(a, b) == IF a < b THEN a ELSE b

Zeros(n) == [i \in 1..n |-> 0]

\* s[lo:hi]
Slice(s, lo, hi) == SubSeq(s, lo + 1, hi)

\* the number of elements copy(dst[lo:hi], src) copies
CopyN(lo, hi, src) == Min(hi - lo, Len(src))

\* dst after src[1..k] went to dst[lo+1..lo+k]
RECURSIVE CopyFirst(_, _, _, _)
CopyFirst(dst, lo, src, k) ==
    IF k <= 0 THEN dst ELSE CopyFirst([dst EXCEPT ![lo + k] = src[k]], lo, src, k - 1)

\* dst after copy(dst[lo:hi], src)
CopyTo(dst, lo, hi, src) == CopyFirst(dst, lo, src, CopyN(lo, hi, src))

SeqsUpTo(S, n) == UNION {[1..k -> S] : k \in 0..n}

IsPrefix(s, t) == Len(s) <= Len(t) /\ SubSeq(t, 1, Len(s)) = s

----------------------------------------------------------------------------
(* chan struct{} with capacity 1 *)

MakeChan == [q |-> 0, closed |-> FALSE]

\* a send that queues every pulse
TrySend_Queue(ch) == [ch EXCEPT !.q = ch.q + 1]

\* select { case ch <- struct{}{}: default: }
TrySend(ch) == IF ch.q < 1 THEN [ch EXCEPT !.q = 1] ELSE ch

----------------------------------------------------------------------------
(* CircularBuffer *)

NewCircularBuffer(capacity) ==
    [C |-> MakeChan, buf |-> Zeros(capacity), len |-> 0, index |-> 0, closed |-> FALSE]

Capacity(cb) == Len(cb.buf)

addLen(cb, n) ==
    LET l == cb.len + n
    IN  IF l # 0 /\ ~cb.closed
        THEN [cb EXCEPT !.len = l, !.C = TrySend(cb.C)]
        ELSE [cb EXCEPT !.len = l]

\* the buffered bytes, head first
Content(cb) ==
    [i \in 1..cb.len |-> cb.buf[((cb.index + i - 1) % Len(cb.buf)) + 1]]

startWritingAt(cb) == (cb.index + cb.len) % Len(cb.buf)

\* writeBytes with the wrapped tail of p left out
writeBytes_NoTail(cb, p) ==
    LET start == (cb.index + cb.len) % Len(cb.buf)
        leftBeforeEnd == Len(cb.buf) - start
        head == Slice(p, 0, Min(Len(p), leftBeforeEnd))
    IN  [cb |-> addLen([cb EXCEPT !.buf = CopyTo(cb.buf, start, Len(cb.buf), head)], Len(p)),
         n  |-> Len(p),
         err |-> "nil"]

\* the copy of p into the storage, shared by both Write variants
writeBytes(cb, p) ==
    LET start == startWritingAt(cb)
        leftBeforeEnd == Len(cb.buf) - start
    IN  IF Len(p) < leftBeforeEnd
        THEN [cb |-> addLen([cb EXCEPT !.buf = CopyTo(cb.buf, start, Len(cb.buf), p)], Len(p)),
              n  |-> CopyN(start, Len(cb.buf), p),
              err |-> "nil"]
        ELSE LET head == Slice(p, 0, leftBeforeEnd)
                 tail == Slice(p, leftBeforeEnd, Len(p))
                 b1 == CopyTo(cb.buf, start, Len(cb.buf), head)
                 b2 == CopyTo(b1, 0, start, tail)
             IN  [cb |-> addLen([cb EXCEPT !.buf = b2], Len(p)),
                  n  |-> CopyN(start, Len(cb.buf), head) + CopyN(0, start, tail),
                  err |-> "nil"]

\* peek that copies from the start of the storage, not from the cursor
peek_FromZero(cb, k) ==
    IF cb.len = 0 /\ cb.closed
    THEN [n |-> 0, err |-> "EOF", data |-> <<>>]
    ELSE LET n == Min(Min(k, cb.len), Len(cb.buf))
         IN  [n |-> n, err |-> "nil", data |-> Slice(cb.buf, 0, n)]

\* peek that reports the end of the stream as soon as the buffer is closed
peek_EOFWhenClosed(cb, k) ==
    IF cb.closed
    THEN [n |-> 0, err |-> "EOF", data |-> <<>>]
    ELSE LET n == Min(k, cb.len)
         IN  [n |-> n, err |-> "nil", data |-> SubSeq(Content(cb), 1, n)]

\* peek that stops at the physical end of the storage
peek_NoWrap(cb, k) ==
    IF cb.len = 0 /\ cb.closed
    THEN [n |-> 0, err |-> "EOF", data |-> <<>>]
    ELSE LET l == Min(k, cb.len)
             src == Slice(cb.buf, cb.index, Min(cb.index + l, Len(cb.buf)))
             n == CopyN(0, k, src)
         IN  [n |-> n, err |-> "nil", data |-> Slice(src, 0, n)]

\* peek into a destination p of size k: the number of bytes copied and p[:n]
peek(cb, k) ==
    IF cb.len = 0 /\ cb.closed
    THEN [n |-> 0, err |-> "EOF", data |-> <<>>]
    ELSE LET l == Min(k, cb.len)
             leftBeforeEnd == Len(cb.buf) - cb.index
         IN  IF l < leftBeforeEnd
             THEN LET src == Slice(cb.buf, cb.index, cb.index + l)
                      n == CopyN(0, k, src)
                  IN  [n |-> n, err |-> "nil", data |-> Slice(src, 0, n)]
             ELSE LET src1 == Slice(cb.buf, cb.index, Len(cb.buf))
                      n1 == CopyN(0, k, src1)
                      src2 == Slice(cb.buf, 0, l - n1)
                      n2 == CopyN(n1, k, src2)
                  IN  [n |-> n1 + n2, err |-> "nil",
                       data |-> Slice(src1, 0, n1) \o Slice(src2, 0, n2)]

\* consume without the clamp of n to the length
consume_NoClamp(cb, n) ==
    [cb |-> addLen([cb EXCEPT !.index = (cb.index + n) % Len(cb.buf)], -n), n |-> n]

\* consume that returns the number asked for
consume_ReturnsArg(cb, n) ==
    LET m == IF n > cb.len THEN cb.len ELSE n
    IN  [cb |-> addLen([cb EXCEPT !.index = (cb.index + m) % Len(cb.buf)], -m), n |-> n]

consume(cb, n) ==
    LET m == IF n > cb.len THEN cb.len ELSE n
    IN  [cb |-> addLen([cb EXCEPT !.index = (cb.index + m) % Len(cb.buf)], -m), n |-> m]

\* the size with the slower growth starting at 8192, not above it
newSize_From8192(cap, minSize) ==
    LET quarters == IF cap >= 8192 THEN 5 ELSE 8
        grown == (cap * quarters) \div 4
    IN  IF minSize > grown THEN minSize ELSE grown

\* the size resize picks for a buffer of capacity cap that must hold minSize
newSize(cap, minSize) ==
    LET quarters == IF cap > 8192 THEN 5 ELSE 8
        grown == (cap * quarters) \div 4
    IN  IF minSize > grown THEN minSize ELSE grown

\* resize that keeps the old read position
resize_KeepIndex(cb, minSize) ==
    LET size == newSize(Len(cb.buf), minSize)
        pk == peek(cb, size)
    IN  [cb |-> [cb EXCEPT !.buf = CopyTo(Zeros(size), 0, size, pk.data)], err |-> "nil"]

resize(cb, minSize) ==
    LET size == newSize(Len(cb.buf), minSize)
        pk == peek(cb, size)
    IN  IF pk.err # "nil"
        THEN [cb |-> cb, err |-> pk.err]
        ELSE [cb |-> [cb EXCEPT !.buf = CopyTo(Zeros(size), 0, size, pk.data), !.index = 0],
              err |-> "nil"]

\* Write that refuses a slice filling the buffer exactly
WriteFailFast_OffByOne(cb, p) ==
    IF cb.closed THEN [cb |-> cb, n |-> 0, err |-> "EOF"]
    ELSE IF Len(p) >= Len(cb.buf) - cb.len THEN [cb |-> cb, n |-> 0, err |-> "ErrNoRoom"]
    ELSE writeBytes(cb, p)

\* Write that looks at the room before it looks at the closed flag
WriteFailFast_RoomFirst(cb, p) ==
    IF Len(p) > Len(cb.buf) - cb.len THEN [cb |-> cb, n |-> 0, err |-> "ErrNoRoom"]
    ELSE IF cb.closed THEN [cb |-> cb, n |-> 0, err |-> "EOF"]
    ELSE writeBytes(cb, p)

\* Write of the fixed-size variant
WriteFailFast(cb, p) ==
    IF cb.closed THEN [cb |-> cb, n |-> 0, err |-> "EOF"]
    ELSE IF Len(p) > Len(cb.buf) - cb.len THEN [cb |-> cb, n |-> 0, err |-> "ErrNoRoom"]
    ELSE writeBytes(cb, p)

\* Write of the growable variant
WriteAutoGrow(cb, p) ==
    IF cb.closed THEN [cb |-> cb, n |-> 0, err |-> "EOF"]
    ELSE IF Len(p) > Len(cb.buf) - cb.len
         THEN LET rs == resize(cb, Len(p) + cb.len)
              IN  IF rs.err # "nil" THEN [cb |-> cb, n |-> 0, err |-> rs.err]
                  ELSE writeBytes(rs.cb, p)
    ELSE writeBytes(cb, p)

Write(pol, cb, p) ==
    IF pol = "failfast" THEN WriteFailFast(cb, p) ELSE WriteAutoGrow(cb, p)

\* Read of the growable variant: peek and consume under one lock
Read(cb, k) ==
    LET pk == peek(cb, k)
    IN  IF pk.err # "nil"
        THEN [cb |-> cb, n |-> pk.n, err |-> pk.err, data |-> pk.data]
        ELSE LET cs == consume(cb, pk.n)
             IN  [cb |-> cs.cb, n |-> cs.n, err |-> "nil", data |-> pk.data]

\* Close: the second close(c.C) is a runtime panic
Close(cb) ==
    [cb |-> [cb EXCEPT !.closed = TRUE, !.C = [cb.C EXCEPT !.closed = TRUE]],
     panic |-> cb.C.closed]

----------------------------------------------------------------------------
(* A client goroutine calling the buffer's methods one after the other.    *)
(* Every method holds the mutex from its first line to its return and is   *)
(* one step, but for the Read of the fixed-size variant, which takes the   *)
(* mutex twice, in Peek and in Consume, and is two steps.                  *)

NoRet == [op |-> "New", n |-> 0, err |-> "nil", data |-> <<>>, arg |-> <<>>]

\* the client is in no call
NoCall == [pc |-> "none", pk |-> <<>>, i |-> 0]

InitBuffer ==
    /\ policy \in {"failfast", "autogrow"}
    /\ \E capacity \in 1..MaxCap : c = NewCircularBuffer(capacity)
    /\ panicked = FALSE
    /\ ret = NoRet
    /\ wr = <<>>
    /\ rd = <<>>
    /\ dropped = 0
    /\ caller = NoCall

CallWrite ==
    \E p \in SeqsUpTo(DataBytes, MaxChunk) :
        /\ ~panicked
        /\ caller.pc = "none"
        /\ Len(wr) + Len(p) <= MaxTotal
        /\ LET r == Write(policy, c, p)
           IN  /\ c' = r.cb
               /\ ret' = [op |-> "Write", n |-> r.n, err |-> r.err, data |-> <<>>, arg |-> p]
               /\ wr' = wr \o Slice(p, 0, r.n)
        /\ UNCHANGED <<splitvars, caller, policy, panicked, rd, dropped, filtervars>>

CallPeek ==
    \E k \in 0..MaxDst :
        /\ ~panicked
        /\ caller.pc = "none"
        /\ LET r == peek(c, k)
           IN  ret' = [op |-> "Peek", n |-> r.n, err |-> r.err, data |-> r.data, arg |-> k]
        /\ UNCHANGED <<splitvars, caller, policy, c, panicked, wr, rd, dropped, filtervars>>

CallConsume ==
    \E n \in 0..MaxDst :
        /\ ~panicked
        /\ caller.pc = "none"
        /\ LET r == consume(c, n)
           IN  /\ c' = r.cb
               /\ ret' = [op |-> "Consume", n |-> r.n, err |-> "nil", data |-> <<>>, arg |-> n]
               /\ dropped' = dropped + r.n
        /\ UNCHANGED <<splitvars, caller, policy, panicked, wr, rd, filtervars>>

\* Read, up to its return or, in the fixed-size variant, up to the return of
\* its n, err := c.Peek(p) with no error
CallRead ==
    \E k \in 0..MaxDst :
        /\ ~panicked
        /\ caller.pc = "none"
        /\ IF policy = "autogrow"
           THEN LET r == Read(c, k)
                IN  /\ c' = r.cb
                    /\ ret' = [op |-> "Read", n |-> r.n, err |-> r.err, data |-> r.data,
                               arg |-> k]
                    /\ rd' = rd \o Slice(r.data, 0, r.n)
                    /\ caller' = caller
           ELSE LET r == peek(c, k)
                IN  IF r.err # "nil"
                    THEN /\ ret' = [op |-> "Read", n |-> r.n, err |-> r.err, data |-> r.data,
                                    arg |-> k]
                         /\ UNCHANGED <<c, rd, caller>>
                    ELSE /\ caller' = [pc |-> "consume", pk |-> r.data, i |-> k]
                         /\ UNCHANGED <<c, ret, rd>>
        /\ UNCHANGED <<splitvars, policy, panicked, wr, dropped, filtervars>>

\* return c.Consume(n), nil of the Read of the fixed-size variant
CallReadConsume ==
    /\ ~panicked
    /\ caller.pc = "consume"
    /\ LET r == consume(c, Len(caller.pk))
       IN  /\ c' = r.cb
           /\ ret' = [op |-> "Read", n |-> r.n, err |-> "nil", data |-> Slice(caller.pk, 0, r.n),
                      arg |-> caller.i]
           /\ rd' = rd \o Slice(caller.pk, 0, r.n)
    /\ caller' = NoCall
    /\ UNCHANGED <<splitvars, policy, panicked, wr, dropped, filtervars>>

CallClose ==
    /\ ~panicked
    /\ caller.pc = "none"
    /\ LET r == Close(c)
       IN  /\ c' = r.cb
           /\ panicked' = r.panic
           /\ ret' = [op |-> "Close", n |-> 0, err |-> "nil", data |-> <<>>, arg |-> <<>>]
    /\ UNCHANGED <<splitvars, caller, policy, wr, rd, dropped, filtervars>>


----------------------------------------------------------------------------
(* Split functions *)

NL == 10
CR == 13
QUOTE == 34
BACKSLASH == 92
LBRACE == 123
RBRACE == 125

\* a []byte that may be nil
Nil == [nil |-> TRUE, b |-> <<>>]
Bytes(b) == [nil |-> FALSE, b |-> b]

NilErr == "nil"

\* bytes.IndexByte: the 0-based index of the first x in data, or -1
IndexByte(data, x) ==
    IF \E i \in 1..Len(data) : data[i] = x
    THEN (CHOOSE i \in 1..Len(data) : data[i] = x /\ \A j \in 1..(i - 1) : data[j] # x) - 1
    ELSE -1

dropCR(data) ==
    IF Len(data) > 0 /\ data[Len(data)] = CR THEN Slice(data, 0, Len(data) - 1) ELSE data

\* bufio.ScanLines
ScanLines(data, atEOF) ==
    IF atEOF /\ Len(data) = 0 THEN [advance |-> 0, token |-> Nil, start |-> 0, err |-> NilErr]
    ELSE LET i == IndexByte(data, NL)
         IN  IF i >= 0
             THEN [advance |-> i + 1, token |-> Bytes(dropCR(Slice(data, 0, i))), start |-> 0,
                   err |-> NilErr]
             ELSE IF atEOF
                  THEN [advance |-> Len(data), token |-> Bytes(dropCR(data)), start |-> 0,
                        err |-> NilErr]
                  ELSE [advance |-> 0, token |-> Nil, start |-> 0, err |-> NilErr]

\* matchQuote that takes a backslash for an ordinary byte
RECURSIVE matchQuote_NoEscape(_, _)
matchQuote_NoEscape(data, i) ==
    IF i >= Len(data) THEN [i |-> -1, ok |-> FALSE]
    ELSE IF data[i + 1] = QUOTE THEN [i |-> i, ok |-> TRUE]
    ELSE matchQuote_NoEscape(data, i + 1)

RECURSIVE matchQuote(_, _)
matchQuote(data, i) ==
    IF i >= Len(data) THEN [i |-> -1, ok |-> FALSE]
    ELSE IF data[i + 1] = BACKSLASH THEN matchQuote(data, i + 2)
    ELSE IF data[i + 1] = QUOTE THEN [i |-> i, ok |-> TRUE]
    ELSE matchQuote(data, i + 1)

\* matchBrace that takes a quote without its closing quote for an ordinary byte
RECURSIVE matchBrace_LooseQuote(_, _)
matchBrace_LooseQuote(data, i) ==
    IF i >= Len(data) THEN [i |-> -1, ok |-> FALSE]
    ELSE IF data[i + 1] = RBRACE THEN [i |-> i, ok |-> TRUE]
    ELSE IF data[i + 1] = QUOTE
         THEN LET q == matchQuote(data, i + 1)
              IN  IF ~q.ok THEN matchBrace_LooseQuote(data, i + 1)
                  ELSE matchBrace_LooseQuote(data, q.i + 1)
    ELSE IF data[i + 1] = LBRACE
         THEN LET m == matchBrace_LooseQuote(data, i + 1)
              IN  IF ~m.ok THEN [i |-> -1, ok |-> FALSE]
                  ELSE matchBrace_LooseQuote(data, m.i + 1)
    ELSE matchBrace_LooseQuote(data, i + 1)

RECURSIVE matchBrace(_, _)
matchBrace(data, i) ==
    IF i >= Len(data) THEN [i |-> -1, ok |-> FALSE]
    ELSE IF data[i + 1] = RBRACE THEN [i |-> i, ok |-> TRUE]
    ELSE IF data[i + 1] = QUOTE
         THEN LET q == matchQuote(data, i + 1)
              IN  IF ~q.ok THEN [i |-> -1, ok |-> FALSE] ELSE matchBrace(data, q.i + 1)
    ELSE IF data[i + 1] = LBRACE
         THEN LET m == matchBrace(data, i + 1)
              IN  IF ~m.ok THEN [i |-> -1, ok |-> FALSE] ELSE matchBrace(data, m.i + 1)
    ELSE matchBrace(data, i + 1)

\* JSONSplit that reports an unfinished object before the stream has ended
JSONSplit_ErrBeforeEOF(data, atEOF) ==
    IF atEOF /\ Len(data) = 0 THEN [advance |-> 0, token |-> Nil, start |-> 0, err |-> NilErr]
    ELSE LET start == IndexByte(data, LBRACE)
         IN  IF start = -1 THEN [advance |-> 0, token |-> Nil, start |-> 0, err |-> NilErr]
             ELSE LET m == matchBrace(data, start + 1)
                  IN  IF ~m.ok
                      THEN [advance |-> 0, token |-> Nil, start |-> 0,
                            err |-> "incomplete JSON object"]
                      ELSE [advance |-> m.i + 1, token |-> Bytes(Slice(data, start, m.i + 1)),
                            start |-> start, err |-> NilErr]

\* JSONSplit; start is the index of the token's first byte in data
JSONSplit(data, atEOF) ==
    IF atEOF /\ Len(data) = 0 THEN [advance |-> 0, token |-> Nil, start |-> 0, err |-> NilErr]
    ELSE LET start == IndexByte(data, LBRACE)
         IN  IF start = -1 THEN [advance |-> 0, token |-> Nil, start |-> 0, err |-> NilErr]
             ELSE LET m == matchBrace(data, start + 1)
                  IN  IF ~m.ok
                      THEN IF atEOF
                           THEN [advance |-> 0, token |-> Nil, start |-> 0,
                                 err |-> "incomplete JSON object"]
                           ELSE [advance |-> 0, token |-> Nil, start |-> 0, err |-> NilErr]
                      ELSE [advance |-> m.i + 1, token |-> Bytes(Slice(data, start, m.i + 1)),
                            start |-> start, err |-> NilErr]

Split(sp, data, atEOF) ==
    IF sp = "json" THEN JSONSplit(data, atEOF) ELSE ScanLines(data, atEOF)

----------------------------------------------------------------------------
(* The split function called directly on windows of a stream, the way a    *)
(* Scanner calls it: on the same window at or before the end of the stream, *)
(* on the window with more bytes, on the rest of the window after a token   *)

MaxWin == 6         \* longest window the split function is called on

SplitBytes == {LBRACE, RBRACE, QUOTE, BACKSLASH, 97}

\* junk{"a":1}more{"b":2}
Example ==
    <<106, 117, 110, 107, LBRACE, QUOTE, 97, QUOTE, 58, 49, RBRACE,
      109, 111, 114, 101, LBRACE, QUOTE, 98, QUOTE, 58, 50, RBRACE>>

\* more is history: bytes arrived between the call before and this one
NoRes ==
    [called |-> FALSE, atEOF |-> FALSE, advance |-> 0, token |-> Nil, start |-> 0, err |-> NilErr,
     more |-> FALSE]

\* the (advance, token, err) of one call
Called(sp, data, atEOF) ==
    LET r == Split(sp, data, atEOF)
    IN  [called |-> TRUE, atEOF |-> atEOF, advance |-> r.advance, token |-> r.token,
         start |-> r.start, err |-> r.err, more |-> FALSE]

InitNoSplit ==
    /\ window = <<>>
    /\ res = NoRes

\* advance, token, err := split(window, atEOF)
CallSplit ==
    \E atEOF \in BOOLEAN :
        /\ res' = Called(splitter, window, atEOF)
        /\ UNCHANGED <<window, bufvars, filtervars>>

\* the Scanner moves past the bytes a call told it to advance over
SplitAdvance ==
    /\ res.called
    /\ res.advance > 0
    /\ window' = Slice(window, res.advance, Len(window))
    /\ res' = NoRes
    /\ UNCHANGED <<bufvars, filtervars>>

\* more bytes arrive behind the window and the split function is called again
SplitExtend ==
    \E k \in 1..(MaxWin - Len(window)) : \E x \in [1..k -> SplitBytes] :
        /\ res.called
        /\ ~res.atEOF
        /\ window' = window \o x
        /\ res' = [Called(splitter, window', FALSE) EXCEPT !.more = TRUE]
        /\ UNCHANGED <<bufvars, filtervars>>

----------------------------------------------------------------------------
(* bufio.Scanner, as the Filter's goroutine uses it.  win is buf[start:end]. *)
(* The buffer of the Scanner holds 4096 bytes once allocated; with fewer   *)
(* than 2048 bytes written it is neither shifted nor grown.                *)

startBufSize == 4096
maxConsecutiveEmptyReads == 100

\* bufio.NewScanner; woff, tokOff and splitErr are history: the offset in the
\* written stream of the first byte of win and of the first byte of token, and
\* whether the last Scan ended on an error of the split function
NewScanner ==
    [win |-> <<>>, end |-> 0, err |-> NilErr, token |-> Nil, woff |-> 0, tokOff |-> 0,
     splitErr |-> FALSE]

\* Scanner.setErr
setErr(sc, err) ==
    IF sc.err = NilErr \/ sc.err = "EOF" THEN [sc EXCEPT !.err = err] ELSE sc

\* Scanner.Err
ScannerErr(sc) == IF sc.err = "EOF" THEN NilErr ELSE sc.err

\* Scanner.Scan from the top of its loop up to its return ("true", "false")
\* or up to the point where it must read ("read")
ScanTop(sp, sc) ==
    LET try == sc.win # <<>> \/ sc.err # NilErr
        r == Split(sp, sc.win, sc.err # NilErr)
    IN  IF try /\ r.err # NilErr
        THEN [sc |-> [setErr(sc, r.err) EXCEPT !.splitErr = TRUE], st |-> "false"]
        ELSE LET sc1 == IF try
                        THEN [sc EXCEPT !.win = Slice(sc.win, r.advance, Len(sc.win)),
                                        !.woff = sc.woff + r.advance,
                                        !.token = r.token,
                                        !.tokOff = sc.woff + r.start]
                        ELSE sc
             IN  IF try /\ ~r.token.nil
                 THEN [sc |-> sc1, st |-> "true"]
                 ELSE IF sc1.err # NilErr
                      THEN [sc |-> [sc1 EXCEPT !.win = <<>>, !.end = 0,
                                               !.woff = sc1.woff + Len(sc1.win)],
                            st |-> "false"]
                      ELSE [sc |-> sc1, st |-> "read"]

\* Scanner.Scan after one s.r.Read returned (n, err, data) on attempt number loop:
\* the Scanner and where Scan is next ("true", "false", or "read" again)
AfterRead(sp, sc, loop, n, err, data) ==
    LET sc1 == [sc EXCEPT !.win = sc.win \o data, !.end = sc.end + n]
    IN  IF err # NilErr THEN ScanTop(sp, setErr(sc1, err))
        ELSE IF n > 0 THEN ScanTop(sp, sc1)
        ELSE IF loop + 1 > maxConsecutiveEmptyReads
             THEN ScanTop(sp, setErr(sc1, "ErrNoProgress"))
             ELSE [sc |-> sc1, st |-> "again"]

----------------------------------------------------------------------------
(* Interpreters: what a chain link does to (data, fields).  A FieldSet is a *)
(* set of <<key, value>> pairs with one value per key.                      *)

Put(fields, k, v) == {kv \in fields : kv[1] # k} \cup {<<k, v>>}

\* "noop" returns its inputs; "first" takes the first byte into field "first";
\* "other" takes every byte left into field "_other"
Interpret(terp, data, fields) ==
    IF terp = "first" /\ Len(data) > 0
    THEN [data |-> Slice(data, 1, Len(data)), fields |-> Put(fields, "first", <<data[1]>>)]
    ELSE IF terp = "other" /\ Len(data) > 0
    THEN [data |-> <<>>, fields |-> Put(fields, "_other", data)]
    ELSE [data |-> data, fields |-> fields]

Chains == {<<>>, <<"first", "other">>}

----------------------------------------------------------------------------
(* The Filter: NewFilter, Write, and the goroutine it spawns *)

FilterCapacity == 4000

\* NewFilter's buffer never wraps and never fills while at most FMaxTotal bytes
\* are written: the model keeps the cells of the 4000 that such a run can reach
FilterCells == Min(FilterCapacity, FMaxTotal + 1)

LineBytes == {97, NL}        \* 'a' and '\n'
JSONBytes == {LBRACE, RBRACE}

Idle == [pc |-> "none", loop |-> 0, pk |-> <<>>, data |-> <<>>, fields |-> {}, i |-> 0,
         tok |-> Nil, off |-> 0, fresh |-> FALSE]

InitNoFilter ==
    /\ splitter = "lines"
    /\ terps = <<>>
    /\ scanner = NewScanner
    /\ g = Idle
    /\ sink = [calls |-> <<>>, more |-> FALSE]
    /\ ntok = 0

\* NewFilter
InitFilter ==
    /\ policy \in {"failfast", "autogrow"}
    /\ c = NewCircularBuffer(FilterCells)
    /\ panicked = FALSE
    /\ ret = NoRet
    /\ wr = <<>>
    /\ rd = <<>>
    /\ dropped = 0
    /\ caller = NoCall
    /\ splitter \in {"lines", "json"}
    /\ terps \in Chains
    /\ scanner = NewScanner
    /\ g = [Idle EXCEPT !.pc = "select"]
    /\ sink = [calls |-> <<>>, more |-> FALSE]
    /\ ntok = 0
    /\ InitNoSplit

\* Filter.Write
FilterWrite ==
    \E b \in SeqsUpTo(IF splitter = "json" THEN JSONBytes ELSE LineBytes, FMaxChunk) :
        /\ ~panicked
        /\ Len(wr) + Len(b) <= FMaxTotal
        /\ LET r == Write(policy, c, b)
           IN  /\ c' = r.cb
               /\ ret' = [op |-> "Write", n |-> r.n, err |-> r.err, data |-> <<>>, arg |-> b]
               /\ wr' = wr \o Slice(b, 0, r.n)
        /\ UNCHANGED <<splitvars, caller, policy, panicked, rd, dropped, filtervars>>

\* cbuf.Close, called once
FilterClose ==
    /\ ~panicked
    /\ ~c.closed
    /\ c' = Close(c).cb
    /\ ret' = [op |-> "Close", n |-> 0, err |-> "nil", data |-> <<>>, arg |-> <<>>]
    /\ UNCHANGED <<splitvars, caller, policy, panicked, wr, rd, dropped, filtervars>>

\* what the goroutine does once Scan has returned st with Scanner sc: the
\* error message goes to output first, then data := scanner.Bytes()
Scanned(sc, st) ==
    [g EXCEPT !.pc = IF st = "false" /\ ScannerErr(sc) # NilErr THEN "diag" ELSE "bytes",
              !.loop = 0, !.pk = <<>>,
              !.fresh = (st = "true")]

\* the goroutine's next position when Scan stands at st
ScanTo(sc, st) ==
    IF st = "read" THEN [g EXCEPT !.pc = "read", !.loop = 0, !.pk = <<>>]
    ELSE IF st = "again" THEN [g EXCEPT !.pc = "read", !.loop = g.loop + 1, !.pk = <<>>]
    ELSE Scanned(sc, st)

\* case <-fp.cbuf.C: a pulse is taken, or the channel is closed
Recv ==
    /\ ~panicked
    /\ g.pc = "select"
    /\ c.C.q > 0 \/ c.C.closed
    /\ c' = [c EXCEPT !.C.q = 0]
    /\ g' = [g EXCEPT !.pc = "scan"]
    /\ UNCHANGED <<splitvars, caller, policy, panicked, ret, wr, rd, dropped, splitter, terps, scanner, sink, ntok>>

\* scanner.Scan() up to its first Read, or to its return
ScanBegin ==
    /\ ~panicked
    /\ g.pc = "scan"
    /\ LET r == ScanTop(splitter, [scanner EXCEPT !.splitErr = FALSE])
       IN  /\ scanner' = r.sc
           /\ g' = ScanTo(r.sc, r.st)
           /\ ntok' = IF r.st = "true" THEN ntok + 1 ELSE ntok
    /\ UNCHANGED <<splitvars, caller, policy, c, panicked, ret, wr, rd, dropped, splitter, terps, sink>>

\* s.r.Read of the growing variant: one critical section
ScanRead ==
    /\ ~panicked
    /\ g.pc = "read"
    /\ policy = "autogrow"
    /\ LET r == Read(c, startBufSize - scanner.end)
           a == AfterRead(splitter, scanner, g.loop, r.n, r.err, r.data)
       IN  /\ c' = r.cb
           /\ scanner' = a.sc
           /\ g' = ScanTo(a.sc, a.st)
           /\ ntok' = IF a.st = "true" THEN ntok + 1 ELSE ntok
    /\ UNCHANGED <<splitvars, caller, policy, panicked, ret, wr, rd, dropped, splitter, terps, sink>>

\* s.r.Read of the fixed-size variant, first half: Peek
ScanReadPeek ==
    /\ ~panicked
    /\ g.pc = "read"
    /\ policy = "failfast"
    /\ LET r == peek(c, startBufSize - scanner.end)
       IN  IF r.err # NilErr
           THEN LET a == AfterRead(splitter, scanner, g.loop, r.n, r.err, r.data)
                IN  /\ scanner' = a.sc
                    /\ g' = ScanTo(a.sc, a.st)
                    /\ ntok' = IF a.st = "true" THEN ntok + 1 ELSE ntok
           ELSE /\ g' = [g EXCEPT !.pc = "consume", !.pk = r.data]
                /\ UNCHANGED <<scanner, ntok>>
    /\ UNCHANGED <<splitvars, caller, policy, c, panicked, ret, wr, rd, dropped, splitter, terps, sink>>

\* s.r.Read of the fixed-size variant, second half: Consume(n)
ScanReadConsume ==
    /\ ~panicked
    /\ g.pc = "consume"
    /\ LET r == consume(c, Len(g.pk))
           a == AfterRead(splitter, scanner, g.loop, r.n, NilErr, Slice(g.pk, 0, r.n))
       IN  /\ c' = r.cb
           /\ scanner' = a.sc
           /\ g' = ScanTo(a.sc, a.st)
           /\ ntok' = IF a.st = "true" THEN ntok + 1 ELSE ntok
    /\ UNCHANGED <<splitvars, caller, policy, panicked, ret, wr, rd, dropped, splitter, terps, sink>>

\* the history keeps the first MaxSink calls of output
Record(call) ==
    IF Len(sink.calls) < MaxSink
    THEN [sink EXCEPT !.calls = Append(sink.calls, call)]
    ELSE [sink EXCEPT !.more = TRUE]

\* output(map[string]interface{}{"module": "filter", "level": "error", "error": err.Error()})
OutputError ==
    /\ ~panicked
    /\ g.pc = "diag"
    /\ sink' = Record([kind |-> "error",
                       fields |-> {<<"module", "filter">>, <<"level", "error">>,
                                   <<"error", ScannerErr(scanner)>>},
                       tok |-> Nil, off |-> 0, fresh |-> FALSE,
                       at |-> Len(wr), split |-> scanner.splitErr])
    /\ g' = [g EXCEPT !.pc = "bytes"]
    /\ UNCHANGED <<splitvars, caller, policy, c, panicked, ret, wr, rd, dropped, splitter, terps, scanner, ntok>>

\* data := scanner.Bytes(); fields := map[string]interface{}{}
TakeBytes ==
    /\ ~panicked
    /\ g.pc = "bytes"
    /\ g' = [g EXCEPT !.pc = IF Len(terps) = 0 THEN "output" ELSE "interp",
                      !.data = scanner.token.b, !.fields = {}, !.i = 1,
                      !.tok = scanner.token, !.off = scanner.tokOff]
    /\ UNCHANGED <<splitvars, caller, policy, c, panicked, ret, wr, rd, dropped, splitter, terps, scanner, sink, ntok>>

\* the loop handing every interpreter the token, not what the one before left
RunInterpreter_SameData ==
    /\ ~panicked
    /\ g.pc = "interp"
    /\ LET r == Interpret(terps[g.i], g.tok.b, g.fields)
       IN  g' = [g EXCEPT !.pc = IF g.i = Len(terps) THEN "output" ELSE "interp",
                          !.data = r.data, !.fields = r.fields, !.i = g.i + 1]
    /\ UNCHANGED <<splitvars, caller, policy, c, panicked, ret, wr, rd, dropped, splitter, terps, scanner, sink, ntok>>

\* data, fields = i.Interpret(data, fields)
RunInterpreter ==
    /\ ~panicked
    /\ g.pc = "interp"
    /\ LET r == Interpret(terps[g.i], g.data, g.fields)
       IN  g' = [g EXCEPT !.pc = IF g.i = Len(terps) THEN "output" ELSE "interp",
                          !.data = r.data, !.fields = r.fields, !.i = g.i + 1]
    /\ UNCHANGED <<splitvars, caller, policy, c, panicked, ret, wr, rd, dropped, splitter, terps, scanner, sink, ntok>>

\* output(fields)
Output ==
    /\ ~panicked
    /\ g.pc = "output"
    /\ sink' = Record([kind |-> "fields", fields |-> g.fields,
                       tok |-> g.tok, off |-> g.off, fresh |-> g.fresh,
                       at |-> 0, split |-> FALSE])
    /\ g' = [Idle EXCEPT !.pc = "select"]
    /\ UNCHANGED <<splitvars, caller, policy, c, panicked, ret, wr, rd, dropped, splitter, terps, scanner, ntok>>

Goroutine ==
    \/ Recv
    \/ ScanBegin
    \/ ScanRead
    \/ ScanReadPeek
    \/ ScanReadConsume
    \/ OutputError
    \/ TakeBytes
    \/ RunInterpreter
    \/ Output

FilterNext ==
    \/ FilterWrite
    \/ FilterClose
    \/ Goroutine

FilterSpec == InitFilter /\ [][FilterNext]_vars

\* Filter.Write called once
FilterWriteOnce ==
    /\ wr = <<>> /\ ret.op = "New"
    /\ FilterWrite

OneWriteNext ==
    \/ FilterWriteOnce
    \/ FilterClose
    \/ Goroutine

\* a Filter that is written to once and closed once; the goroutine is
\* scheduled as long as it can run
FairFilterSpec == InitFilter /\ [][OneWriteNext]_vars /\ WF_vars(Goroutine)

----------------------------------------------------------------------------
(* The buffer alone, its methods called one after the other *)

Init == InitBuffer /\ InitNoFilter /\ InitNoSplit

Next ==
    \/ CallWrite
    \/ CallPeek
    \/ CallConsume
    \/ CallRead
    \/ CallReadConsume
    \/ CallClose

Spec == Init /\ [][Next]_vars

----------------------------------------------------------------------------
(* The buffer with a second goroutine calling Read while the client makes  *)
(* its calls.  The critical sections of the two goroutines interleave as   *)
(* whole steps; the Read of the fixed-size variant is two of them for      *)
(* either goroutine.  g.pk is what the second goroutine's Peek put into p. *)

\* n, err := c.Peek(p) of a Read of the fixed-size variant
ReadPeek ==
    \E k \in 0..MaxDst :
        /\ ~panicked
        /\ policy = "failfast"
        /\ g.pc = "none"
        /\ LET r == peek(c, k)
           IN  IF r.err # "nil"
               THEN /\ ret' = [op |-> "Read", n |-> r.n, err |-> r.err, data |-> r.data,
                               arg |-> k]
                    /\ g' = g
               ELSE /\ g' = [g EXCEPT !.pc = "consume", !.pk = r.data, !.i = k]
                    /\ ret' = ret
        /\ UNCHANGED <<splitvars, caller, policy, c, panicked, wr, rd, dropped, splitter, terps, scanner,
                       sink, ntok>>

\* return c.Consume(n), nil of that Read
ReadConsume ==
    /\ ~panicked
    /\ policy = "failfast"
    /\ g.pc = "consume"
    /\ LET r == consume(c, Len(g.pk))
       IN  /\ c' = r.cb
           /\ ret' = [op |-> "Read", n |-> r.n, err |-> "nil", data |-> Slice(g.pk, 0, r.n),
                      arg |-> g.i]
           /\ rd' = rd \o Slice(g.pk, 0, r.n)
    /\ g' = Idle
    /\ UNCHANGED <<splitvars, caller, policy, panicked, wr, dropped, splitter, terps, scanner, sink, ntok>>

ConcNext ==
    \/ CallWrite
    \/ CallPeek
    \/ CallConsume
    \/ CallRead
    \/ CallReadConsume
    \/ CallClose
    \/ ReadPeek
    \/ ReadConsume

ConcSpec == Init /\ [][ConcNext]_vars

----------------------------------------------------------------------------
(* The size resize picks, for the capacities and lengths a Write of the    *)
(* growable variant can find when it lacks room: small capacities and      *)
(* capacities around 8192, buffers full or nearly so, slices that are      *)
(* short, about a quarter of the capacity, or longer than the capacity     *)

GrowSpan == 3       \* how far around 8192, and around a quarter of the capacity

GrowCaps == (1..MaxCap) \cup {8192 + d : d \in (0 - GrowSpan)..GrowSpan}

GrowChunks(cap) ==
    {n \in (1..MaxChunk) \cup {cap \div 4 + d : d \in (0 - GrowSpan)..GrowSpan}
                         \cup {cap + 1} : n > 0}

InitGrow ==
    /\ policy = "autogrow"
    /\ c = NewCircularBuffer(1)
    /\ panicked = FALSE
    /\ ret = NoRet
    /\ wr = <<>>
    /\ rd = <<>>
    /\ dropped = 0
    /\ caller = NoCall
    /\ InitNoFilter
    /\ InitNoSplit

\* c.resize(len(p) + c.len) up to newbuf := make([]byte, newSize), for a buffer
\* of capacity cap with free bytes of room and a slice of plen bytes
ResizeTarget ==
    \E cap \in GrowCaps : \E free \in 0..Min(cap, MaxChunk) : \E plen \in GrowChunks(cap) :
        /\ plen > free
        /\ ret' = [op |-> "resize", n |-> newSize(cap, plen + (cap - free)), err |-> "nil",
                   data |-> <<>>, arg |-> <<cap, cap - free, plen>>]
        /\ UNCHANGED <<splitvars, caller, policy, c, panicked, wr, rd, dropped, filtervars>>

GrowNext == ResizeTarget

GrowSpec == InitGrow /\ [][GrowNext]_vars

----------------------------------------------------------------------------
(* The JSON split function alone, called on every window of up to MaxWin   *)
(* bytes and on the example stream                                          *)

InitSplit ==
    /\ policy = "autogrow"
    /\ c = NewCircularBuffer(1)
    /\ panicked = FALSE
    /\ ret = NoRet
    /\ wr = <<>>
    /\ rd = <<>>
    /\ dropped = 0
    /\ caller = NoCall
    /\ splitter = "json"
    /\ terps = <<>>
    /\ scanner = NewScanner
    /\ g = Idle
    /\ sink = [calls |-> <<>>, more |-> FALSE]
    /\ ntok = 0
    /\ window \in SeqsUpTo(SplitBytes, MaxWin) \cup {Example}
    /\ res = NoRes

SplitNext ==
    \/ CallSplit
    \/ SplitAdvance
    \/ SplitExtend

SplitSpec == InitSplit /\ [][SplitNext]_vars

----------------------------------------------------------------------------
(* Properties of the buffer under sequential calls (Spec) *)

\* this step is the return of the client's call of op
Returns(op) == ret'.op = op /\ caller'.pc = "none"

\* C1: as long as bytes leave the buffer through Read only, the bytes the
\* Reads returned are, in order, a prefix of the bytes the Writes accepted,
\* and all of them once the buffer is empty again.
C1_RoundTrip ==
    dropped = 0 => /\ IsPrefix(rd, wr)
                   /\ (c.len = 0 => rd = wr)

\* a Read that crossed the physical end of the storage emptied the buffer
C1_Witness ==
    /\ policy = "failfast"
    /\ dropped = 0
    /\ ret.op = "Read" /\ ret.n >= 2
    /\ 0 < c.index /\ c.index < ret.n
    /\ c.len = 0 /\ rd = wr

\* C7: the length stays within 0..capacity and the cursor within 0..capacity-1.
C7_Ranges ==
    /\ 0 <= c.len /\ c.len <= Len(c.buf)
    /\ 0 <= c.index /\ c.index < Len(c.buf)

\* a full buffer whose cursor is at the last cell
C7_Witness ==
    /\ Len(c.buf) > 1
    /\ c.len = Len(c.buf)
    /\ c.index = Len(c.buf) - 1

\* C8: a Write of the fixed-size variant on an open buffer either finds no
\* room, returns (0, ErrNoRoom) and changes nothing, or appends all of p at
\* the tail, adds len(p) to the length, keeps the cursor and returns (len(p), nil).
C8_FailFastWrite ==
    [][(policy = "failfast" /\ ~c.closed /\ Returns("Write")) =>
        LET p == ret'.arg
        IN  IF Len(p) > Len(c.buf) - c.len
            THEN /\ ret'.n = 0 /\ ret'.err = "ErrNoRoom"
                 /\ c' = c
            ELSE /\ ret'.n = Len(p) /\ ret'.err = "nil"
                 /\ Content(c') = Content(c) \o p
                 /\ c'.len = c.len + Len(p)
                 /\ c'.index = c.index
                 /\ Len(c'.buf) = Len(c.buf)
                 /\ c'.closed = c.closed]_vars

\* a slice that would fit an empty buffer is refused for lack of room
C8_Witness ==
    /\ policy = "failfast"
    /\ ret.op = "Write" /\ ret.err = "ErrNoRoom" /\ ret.n = 0
    /\ Len(ret.arg) <= Len(c.buf)
    /\ c.len > 0 /\ ~c.closed

\* C9: a Write of the growable variant on an open buffer without room grows
\* the storage and succeeds: the content is the old content followed by p,
\* the length grew by len(p), the cursor is 0 and the capacity holds the length.
C9_AutoGrowWrite ==
    [][(policy = "autogrow" /\ ~c.closed /\ Returns("Write")
            /\ Len(ret'.arg) > Len(c.buf) - c.len) =>
        LET p == ret'.arg
        IN  /\ ret'.n = Len(p) /\ ret'.err = "nil"
            /\ Len(c'.buf) > Len(c.buf)
            /\ Content(c') = Content(c) \o p
            /\ c'.len = c.len + Len(p)
            /\ c'.index = 0
            /\ Len(c'.buf) >= c'.len]_vars

\* a grown buffer right after a Write, some bytes having been read before
C9_Witness ==
    /\ policy = "autogrow"
    /\ ret.op = "Write" /\ ret.err = "nil" /\ Len(ret.arg) > 0
    /\ Len(c.buf) > MaxCap
    /\ c.index = 0
    /\ Len(rd) > 0
    /\ c.len > Len(ret.arg)

\* C10: closed never goes back to false, and a Write on a closed buffer
\* returns (0, EOF) and leaves storage, cursor, length and capacity alone.
C10_CloseForbidsWrite ==
    [][/\ c.closed => c'.closed
       /\ (c.closed /\ Returns("Write")) =>
            /\ ret'.n = 0 /\ ret'.err = "EOF"
            /\ c'.buf = c.buf /\ c'.index = c.index /\ c'.len = c.len]_vars

\* an empty Write refused on a closed buffer that still holds bytes
C10_Witness ==
    /\ c.closed
    /\ ret.op = "Write" /\ ret.err = "EOF" /\ ret.arg = <<>>
    /\ c.len > 0

\* C11: Peek and Read report the end of the stream exactly when the buffer is
\* closed and empty; a closed buffer that holds bytes hands them out in order,
\* so that the Reads have returned every written byte when the end is
\* reported; on an open empty buffer Peek and Read return (0, nil).
C11_EndOfStream ==
    [][(Returns("Peek") \/ Returns("Read")) =>
        /\ ret'.err = (IF c.len = 0 /\ c.closed THEN "EOF" ELSE "nil")
        /\ ret'.err = "EOF" => (ret'.n = 0 /\ c' = c)
        /\ (c.closed /\ c.len > 0) =>
                /\ ret'.n = Min(ret'.arg, c.len)
                /\ ret'.data = SubSeq(Content(c), 1, ret'.n)
        /\ (~c.closed /\ c.len = 0) => (ret'.n = 0 /\ ret'.err = "nil")
        /\ (ret'.op = "Read" /\ ret'.err = "EOF" /\ dropped = 0) => rd' = wr']_vars

\* a Read after Close returned bytes and left some for the next one
C11_Witness ==
    /\ c.closed
    /\ ret.op = "Read" /\ ret.err = "nil" /\ ret.n > 0
    /\ c.len > 0

\* C12: Peek into a destination of size k returns the first min(k, length)
\* buffered bytes and leaves the buffer and its channel as they were; a Peek
\* right after a Peek of the same size returns the same.
C12_PeekIsPure ==
    [][Returns("Peek") =>
        /\ c' = c
        /\ ret'.n = Min(ret'.arg, c.len)
        /\ ret'.data = SubSeq(Content(c), 1, Min(ret'.arg, c.len))
        /\ (ret.op = "Peek" /\ ret.arg = ret'.arg) => ret' = ret]_vars

\* a Peek returned bytes from both sides of the physical end of the storage
C12_Witness ==
    /\ ret.op = "Peek" /\ ret.n >= 2
    /\ c.index > 0
    /\ c.index + ret.n > Len(c.buf)
    /\ ret.data = SubSeq(Content(c), 1, ret.n)

\* C13: Consume(n) on an open or closed buffer returns k = min(n, length),
\* takes k off the length, moves the cursor to (cursor + k) mod capacity and
\* keeps the bytes behind the first k.
C13_Consume ==
    [][Returns("Consume") =>
        LET k == Min(ret'.arg, c.len)
        IN  /\ ret'.n = k /\ ret'.err = "nil"
            /\ c'.len = c.len - k
            /\ c'.index = (c.index + k) % Len(c.buf)
            /\ Content(c') = SubSeq(Content(c), k + 1, c.len)
            /\ c'.buf = c.buf
            /\ c'.closed = c.closed]_vars

\* a Consume asked for more than a closed buffer held and emptied it
C13_Witness ==
    /\ ret.op = "Consume" /\ ret.arg > ret.n /\ ret.n > 0
    /\ c.len = 0
    /\ c.closed

\* C20: with Reads of two goroutines and no bare Consume, the bytes the Reads
\* returned are the bytes that left the buffer: in the order written, none
\* twice, none missing.
C20_ReadAtomic ==
    dropped = 0 => /\ IsPrefix(rd, wr)
                   /\ Len(rd) + c.len = Len(wr)

\* C21: the size resize picks for a Write of plen bytes into a buffer of
\* capacity cap holding len bytes is the larger of len + plen and T, with T
\* twice cap up to 8192 and cap * 5 / 4 above; it is not below cap and it
\* holds len + plen.
C21_GrowthTarget ==
    ret.op = "resize" =>
        LET cap == ret.arg[1]
            len == ret.arg[2]
            plen == ret.arg[3]
            T == IF cap <= 8192 THEN 2 * cap ELSE (cap * 5) \div 4
        IN  /\ ret.n = (IF len + plen > T THEN len + plen ELSE T)
            /\ ret.n >= cap
            /\ ret.n >= len + plen

\* a capacity above 8192 grew by a quarter, which was more than asked for
C21_Witness ==
    /\ ret.op = "resize"
    /\ ret.arg[1] > 8192
    /\ ret.n = (ret.arg[1] * 5) \div 4
    /\ ret.n > ret.arg[2] + ret.arg[3]
    /\ ret.n < 2 * ret.arg[1]

\* C23: no call panics on the channel: once the channel is closed nothing is
\* sent on it, and it is not closed a second time, so every Close returns.
C23_ChannelNeverMisused ==
    /\ [](~panicked)
    /\ [][c.C.closed => (c'.C.q = c.C.q /\ c'.closed)]_vars

\* C18: the capacity stays what NewCircularBuffer was given.
C18_CapacityFixed ==
    [][Capacity(c') = Capacity(c)]_vars

----------------------------------------------------------------------------
(* Properties of the Filter (FilterSpec, FairFilterSpec) *)

\* the goroutine waits on the channel and nothing but a Write can wake it
Quiescent ==
    /\ ~panicked
    /\ g.pc = "select"
    /\ c.C.q = 0 /\ ~c.C.closed

\* the tokens the split function finds in a stream that has not ended
RECURSIVE Tokens(_, _)
Tokens(sp, stream) ==
    LET r == Split(sp, stream, FALSE)
    IN  IF r.token.nil \/ r.advance = 0 THEN <<>>
        ELSE <<r.token.b>> \o Tokens(sp, Slice(stream, r.advance, Len(stream)))

IsToken(call) == call.kind = "fields" /\ call.fresh

\* the tokens handed to output after a Scan that returned true, in order
Delivered ==
    LET recs == SelectSeq(sink.calls, IsToken)
    IN  [i \in 1..Len(recs) |-> recs[i].tok.b]

NumErrors == Len(SelectSeq(sink.calls, LAMBDA call : call.kind = "error"))

\* C2: when the goroutine is back waiting with no pulse pending, every
\* complete token of the bytes written so far has been handed to output.
C2_DrainsAllTokens ==
    (Quiescent /\ ~sink.more) => Delivered = Tokens(splitter, wr)

\* C3: the records output receives are cut from the written stream at
\* positions that never go back, tokens of successful Scans lie one after the
\* other without overlap, and the record being processed lies after every
\* record output has already received.
C3_FIFO ==
    /\ \A i \in 1..Len(sink.calls) :
          (sink.calls[i].kind = "fields" /\ ~sink.calls[i].tok.nil) =>
              /\ sink.calls[i].off + Len(sink.calls[i].tok.b) <= Len(wr)
              /\ SubSeq(wr, sink.calls[i].off + 1, sink.calls[i].off + Len(sink.calls[i].tok.b)) = sink.calls[i].tok.b
    /\ \A i, j \in 1..Len(sink.calls) :
          (i < j /\ sink.calls[i].kind = "fields" /\ sink.calls[j].kind = "fields"
                 /\ ~sink.calls[i].tok.nil /\ ~sink.calls[j].tok.nil) =>
              /\ sink.calls[i].off <= sink.calls[j].off
              /\ (sink.calls[i].fresh /\ sink.calls[j].fresh) =>
                    /\ sink.calls[i].off < sink.calls[j].off
                    /\ sink.calls[i].off + Len(sink.calls[i].tok.b) <= sink.calls[j].off
    /\ (g.pc \in {"interp", "output"} /\ g.fresh) =>
          \A i \in 1..Len(sink.calls) :
              IsToken(sink.calls[i]) => sink.calls[i].off + Len(sink.calls[i].tok.b) <= g.off

\* two tokens went through a chain of interpreters to output, one after the other
C3_Witness ==
    /\ Len(terps) > 0
    /\ Len(Delivered) >= 2
    /\ Delivered[1] # <<>>
    /\ g.pc = "select"

\* C4: between two iterations of the goroutine, output has been called once
\* for every token Scan returned and once for every error message, no more.
C4_OncePerToken ==
    (g.pc = "select" /\ ~sink.more) => Len(sink.calls) = ntok + NumErrors

\* C5: once the buffer is closed and empty the goroutine comes to an end.
C5_Terminates ==
    []((c.closed /\ c.len = 0) => <>(g.pc = "done"))

\* C6: after an error message for a token the split function rejected, a
\* complete token written later is handed to output by the time the goroutine
\* is back waiting with no pulse pending.
C6_RecoversAfterError ==
    (Quiescent /\ ~sink.more) =>
        \A i \in 1..Len(sink.calls) :
            (sink.calls[i].kind = "error" /\ sink.calls[i].split
                /\ Tokens(splitter, Slice(wr, sink.calls[i].at, Len(wr))) # <<>>) =>
                    \E j \in (i + 1)..Len(sink.calls) : IsToken(sink.calls[j])

\* C14: the channel holds one pulse at most, and a pulse that is pending stays
\* pending, one pulse, through every Write and every Consume until the
\* goroutine receives it; a Write can always be made, whatever the goroutine
\* is doing.
C14_CoalescingSlot ==
    /\ [](ENABLED FilterWrite)
    /\ [][/\ c.C.q \in {0, 1} /\ c'.C.q \in {0, 1}
          /\ (c.C.q = 1 /\ ~(g.pc = "select" /\ g'.pc = "scan")) => c'.C.q = 1]_vars

\* a second Write was made before the goroutine received the pulse of the first
C14_Witness ==
    /\ g.pc = "select" /\ scanner = NewScanner /\ sink.calls = <<>>
    /\ ret.op = "Write" /\ Len(ret.arg) > 0
    /\ Len(wr) > Len(ret.arg)
    /\ c.C.q = 1

\* C15: the goroutine never waits on the channel of an open buffer that holds
\* bytes with no pulse pending.
C15_NoLostWakeup ==
    ~(g.pc = "select" /\ ~c.closed /\ c.len > 0 /\ c.C.q = 0)

\* what the first n interpreters of the chain make of a token
RECURSIVE Chained(_, _, _)
Chained(chain, n, token) ==
    IF n = 0 THEN [data |-> token, fields |-> {}]
    ELSE LET before == Chained(chain, n - 1, token)
         IN  Interpret(chain[n], before.data, before.fields)

\* C19: the interpreters run in list order from the token and an empty
\* FieldSet, each on the bytes and the FieldSet the one before it returned,
\* and output receives what the last one returned for that token alone.
C19_InterpreterChain ==
    /\ \A i \in 1..Len(sink.calls) :
          sink.calls[i].kind = "fields" =>
              sink.calls[i].fields = Chained(terps, Len(terps), sink.calls[i].tok.b).fields
    /\ g.pc = "interp" =>
          /\ g.i \in 1..Len(terps)
          /\ g.data = Chained(terps, g.i - 1, g.tok.b).data
          /\ g.fields = Chained(terps, g.i - 1, g.tok.b).fields
    /\ g.pc = "output" => g.fields = Chained(terps, Len(terps), g.tok.b).fields

\* output received the fields of a two-byte token, then an empty FieldSet
C19_Witness ==
    /\ Len(terps) = 2
    /\ Len(sink.calls) >= 2
    /\ sink.calls[1].kind = "fields" /\ sink.calls[1].fresh
    /\ Cardinality(sink.calls[1].fields) = 2
    /\ sink.calls[2].kind = "fields" /\ sink.calls[2].fields = {}

----------------------------------------------------------------------------
(* Properties of the JSON split function (SplitSpec) *)

\* the position (from 1) of the first '{' of data, 0 when there is none
FirstBrace(data) ==
    IF \E i \in 1..Len(data) : data[i] = LBRACE
    THEN CHOOSE i \in 1..Len(data) :
            data[i] = LBRACE /\ \A j \in 1..(i - 1) : data[j] # LBRACE
    ELSE 0

\* reading data from position i (from 1) on with depth braces open, inside a
\* string literal or not: the position of the '}' that brings the depth to 0,
\* 0 when data ends before it
RECURSIVE ClosingBrace(_, _, _, _)
ClosingBrace(data, i, depth, inString) ==
    IF i > Len(data) THEN 0
    ELSE IF inString
         THEN IF data[i] = BACKSLASH THEN ClosingBrace(data, i + 2, depth, TRUE)
              ELSE IF data[i] = QUOTE THEN ClosingBrace(data, i + 1, depth, FALSE)
              ELSE ClosingBrace(data, i + 1, depth, TRUE)
         ELSE IF data[i] = QUOTE THEN ClosingBrace(data, i + 1, depth, TRUE)
              ELSE IF data[i] = LBRACE THEN ClosingBrace(data, i + 1, depth + 1, FALSE)
              ELSE IF data[i] = RBRACE
                   THEN IF depth = 1 THEN i ELSE ClosingBrace(data, i + 1, depth - 1, FALSE)
              ELSE ClosingBrace(data, i + 1, depth, FALSE)

\* the position of the '}' matching the first '{' of data, 0 when there is none
MatchOfFirst(data) ==
    IF FirstBrace(data) = 0 THEN 0 ELSE ClosingBrace(data, FirstBrace(data) + 1, 1, FALSE)

TokenA == <<LBRACE, QUOTE, 97, QUOTE, 58, 49, RBRACE>>     \* {"a":1}
TokenB == <<LBRACE, QUOTE, 98, QUOTE, 58, 50, RBRACE>>     \* {"b":2}

\* C16: on a window holding a '{' and its matching '}' (nested pairs counted,
\* string literals and their escapes skipped) JSONSplit returns no error, the
\* bytes from the first '{' to the matching '}' as the token, and the index
\* just past that '}' as the advance; on junk{"a":1}more{"b":2} it returns
\* {"a":1}, and {"b":2} on what is left.
C16_ObjectToken ==
    /\ (res.called /\ MatchOfFirst(window) # 0) =>
            /\ res.err = NilErr
            /\ ~res.token.nil
            /\ res.token.b = SubSeq(window, FirstBrace(window), MatchOfFirst(window))
            /\ res.advance = MatchOfFirst(window)
    /\ (res.called /\ window = Example) =>
            res.token = Bytes(TokenA) /\ res.advance = 11 /\ res.err = NilErr
    /\ (res.called /\ window = Slice(Example, 11, Len(Example))) =>
            res.token = Bytes(TokenB) /\ res.advance = 11 /\ res.err = NilErr

\* the second object of the example came out of what the first call left
C16_Witness ==
    /\ res.called
    /\ window = Slice(Example, 11, Len(Example))
    /\ res.token = Bytes(TokenB)

\* C17: on a window with a '{' whose matching '}' is missing JSONSplit returns
\* (0, nil, nil) before the end of the stream and (0, nil, "incomplete JSON
\* object") at its end; on a window with no '{' it returns (0, nil, nil).
C17_IncompleteObject ==
    res.called =>
        /\ FirstBrace(window) = 0 =>
                res.advance = 0 /\ res.token.nil /\ res.err = NilErr
        /\ (FirstBrace(window) # 0 /\ MatchOfFirst(window) = 0) =>
                /\ res.advance = 0
                /\ res.token.nil
                /\ res.err = IF res.atEOF THEN "incomplete JSON object" ELSE NilErr

\* the stream ended right after a backslash inside a string literal
C17_Witness ==
    /\ res.called /\ res.atEOF
    /\ window = <<LBRACE, QUOTE, BACKSLASH>>
    /\ res.err = "incomplete JSON object"

\* what is left of a stream once the split function finds no more tokens in it
RECURSIVE Rest(_, _)
Rest(sp, stream) ==
    LET r == Split(sp, stream, FALSE)
    IN  IF r.token.nil \/ r.advance = 0 THEN stream
        ELSE Rest(sp, Slice(stream, r.advance, Len(stream)))

\* C22: when JSONSplit has returned a token for a window before the end of
\* the stream, it returns the same advance and token for that window with
\* more bytes behind it; and the tokens of a stream are the tokens of its
\* first part followed by the tokens of what that part left and the rest.
C22_ChunkingIndependent ==
    [][(res.called /\ ~res.atEOF /\ res'.more) =>
        LET x == SubSeq(window', Len(window) + 1, Len(window'))
        IN  /\ window' = window \o x
            /\ (res.err = NilErr /\ res.advance > 0) =>
                    /\ res'.advance = res.advance
                    /\ res'.token = res.token
                    /\ res'.err = NilErr
            /\ Tokens(splitter, window') =
                    Tokens(splitter, window) \o Tokens(splitter, Rest(splitter, window) \o x)]_vars

\* a window that held an object behind other bytes was called on again with a
\* second object behind it
C22_Witness ==
    /\ res.called /\ res.more
    /\ res.advance > 0 /\ res.start > 0
    /\ \E k \in 1..(Len(window) - 1) :
          Split(splitter, SubSeq(window, 1, k), FALSE).advance = res.advance
    /\ Len(Tokens(splitter, window)) >= 2

====
